---- MODULE Spec2Model ----
(***************************************************************************)
(* Model of the Si514 clock driver (src/python/py514.py, class Py514).     *)
(*                                                                         *)
(* The driver is Python 2 code: "/" on two integers is floor division and  *)
(* integers are unbounded.  TLC's integers are 32 bits wide, so a product  *)
(* that can exceed 2^31 is never formed here: comparisons of a product     *)
(* with a bound are evaluated by division (ProdGE), and quotients of a     *)
(* product are evaluated digit by digit (MulDivMod).  Both are exact.      *)
(***************************************************************************)
EXTENDS Integers, Sequences, FiniteSets, TLC

VARIABLES
    m_int,      \* self.__m_int   (cached multiplier, integer part)
    m_frac,     \* self.__m_frac  (cached multiplier, fraction part)
    freq,       \* self.__freq    (cached target frequency)
    xtal_corr,  \* self.__xtal_corr
    chip,       \* the Si514 register file behind the i2c transport
    call,       \* the last operation invoked on the driver, with its argument
    result,     \* how that operation ended
    ops,        \* the transport operations that operation completed, in order
    swallowed,  \* WriteRegister exceptions swallowed by the retry loop in it
    glitches,   \* number of out-of-band changes made to the chip so far
    calc        \* scratch record of the pure-function specifications

vars == <<m_int, m_frac, freq, xtal_corr, chip, call, result, ops, swallowed,
          glitches, calc>>

driver_vars == <<m_int, m_frac, freq, xtal_corr, chip, call, result, ops,
                 swallowed, glitches>>

----------------------------------------------------------------------------
(* Program constants, Py514.__init__ *)

REG_LP == 0
REG_M_FRAC1 == 5
REG_M_FRAC2 == 6
REG_M_FRAC3 == 7
REG_M_INT_FRAC == 8
REG_M_INT == 9
REG_HS_DIV == 10
REG_LS_HS_DIV == 11
REG_RESET == 128
REG_CONTROL == 132

MIN_FREQ == 100000
MAX_FREQ == 250000000

FXO == 31980000
FVCO_MIN == 2080000000
\* self.__FVCO_MAX = 2500000000 does not fit a 32-bit integer; the model
\* keeps its half.  The driver itself never reads __FVCO_MAX.
FVCO_MAX_HALF == 1250000000

HS_DIV_MIN == 10
HS_DIV_MAX == 1022

OUTPUT_ENABLE == 4
RESET == 128
CALIBRATE == 1

\* freq_min / freq_max of the command-line entry point
freq_min == 100000
freq_max == 170000000

TwoTo29 == 536870912

----------------------------------------------------------------------------
(* Exact arithmetic on products wider than 32 bits *)

Pow2(n) == 2 ^ n

\* a * b >= c, for naturals a, b, c with c + b < 2^31
ProdGE(a, b, c) == IF b = 0 THEN c <= 0 ELSE a >= (c + b - 1) \div b

\* a * b < c
ProdLT(a, b, c) == ~ProdGE(a, b, c)

\* a * b <= 2 * c, for naturals with a < 2^30, b > 0
ProdLE2(a, b, c) ==
    IF a = 0 THEN TRUE
    ELSE b <= 2 * (c \div a) + ((2 * (c % a)) \div a)

\* <<(a * h) \div x, (a * h) % x>> by Horner's rule over the bits of h;
\* needs x + a < 2^31 and a quotient below 2^31.
RECURSIVE MulDivMod(_, _, _)
MulDivMod(a, h, x) ==
    IF h = 0 THEN <<0, 0>>
    ELSE LET p  == MulDivMod(a, h \div 2, x)
             q2 == 2 * p[1] + ((2 * p[2]) \div x)
             r2 == (2 * p[2]) % x
         IN  IF h % 2 = 0 THEN <<q2, r2>>
             ELSE <<q2 + ((r2 + a) \div x), (r2 + a) % x>>

\* The same two digits of h to a step; needs 4 * x + 3 * a < 2^31.
RECURSIVE MulDivMod4(_, _, _)
MulDivMod4(a, h, x) ==
    IF h = 0 THEN <<0, 0>>
    ELSE LET p == MulDivMod4(a, h \div 4, x)
             t == 4 * p[2] + (h % 4) * a
         IN  <<4 * p[1] + (t \div x), t % x>>

\* <<floor(r * 2^n / x), (r * 2^n) % x>> for 0 <= r < x < 2^25: the first n
\* bits of the binary expansion of r / x and the remainder left after them,
\* by long division, six bits to a step.
RECURSIVE FracBits(_, _, _)
FracBits(r, x, n) ==
    IF n <= 0 THEN <<0, r>>
    ELSE LET k == IF n % 6 = 0 THEN 6 ELSE n % 6
             p == FracBits(r, x, n - k)
             s == Pow2(k)
         IN  <<s * p[1] + ((s * p[2]) \div x), (s * p[2]) % x>>

RECURSIVE BitLen(_)
BitLen(n) == IF n = 0 THEN 0 ELSE 1 + BitLen(n \div 2)

----------------------------------------------------------------------------
(* Divider solver *)

\* One "if (hsdiv_freq < FVCO_MIN): hsdiv_freq *= 2; ls_div = k" of
\* calculate_ls_div.  s = <<hsdiv_freq / HS_DIV_MAX, ls_div>>: the running
\* value is kept divided by HS_DIV_MAX, its constant factor.
LsStep(s, k) ==
    IF ProdLT(s[1], HS_DIV_MAX, FVCO_MIN) THEN <<s[1] * 2, k>> ELSE s

calculate_ls_div(f) ==
    LET s0 == <<f, 0>>
        s1 == LsStep(s0, 1)
        s2 == LsStep(s1, 2)
        s3 == LsStep(s2, 3)
        s4 == LsStep(s3, 4)
        s5 == LsStep(s4, 5)
    IN  s5[2]

\* The loop "for i in range(0, 10)" of calculate_hs_div, from iteration i on;
\* the value is hs_max after the last iteration.
RECURSIVE HsSearch(_, _, _, _, _)
HsSearch(lsdiv_freq, hs_min, hs_max, fvco, i) ==
    IF i >= 10 THEN hs_max
    ELSE LET hs_div == (hs_min + hs_max) \div 2
         IN  IF ProdGE(lsdiv_freq, hs_div, fvco)
             THEN HsSearch(lsdiv_freq, hs_min, hs_div, fvco, i + 1)
             ELSE HsSearch(lsdiv_freq, hs_div, hs_max, fvco, i + 1)

\* calculate_hs_div with the VCO floor left in whole units (fvco not halved)
calculate_hs_div_whole_floor(f, ls) ==
    2 * HsSearch(Pow2(ls) * f, HS_DIV_MIN \div 2, HS_DIV_MAX \div 2, FVCO_MIN, 0)

\* calculate_hs_div returning the half-unit value (hs_max not doubled)
calculate_hs_div_half(f, ls) ==
    HsSearch(Pow2(ls) * f, HS_DIV_MIN \div 2, HS_DIV_MAX \div 2, FVCO_MIN \div 2, 0)

\* calculate_hs_div with eight iterations of the search instead of ten
calculate_hs_div_eight_rounds(f, ls) ==
    2 * HsSearch(Pow2(ls) * f, HS_DIV_MIN \div 2, HS_DIV_MAX \div 2, FVCO_MIN \div 2, 2)

calculate_hs_div(f, ls) ==
    LET ls_div     == Pow2(ls)
        lsdiv_freq == ls_div * f
        hs_min     == HS_DIV_MIN \div 2
        hs_max     == HS_DIV_MAX \div 2
        fvco       == FVCO_MIN \div 2
    IN  2 * HsSearch(lsdiv_freq, hs_min, hs_max, fvco, 0)

\* float(a) / float(x) for a = n * h < 2^53 and 0 < x, as IEEE-754 binary64
\* computes it (round to nearest, ties to even), returned as
\* <<int(m_t), int((m_t - int(m_t)) * 2^29)>>.  The quotient has BitLen(q)
\* integer bits and so 53 - BitLen(q) fraction bits; both subtracting the
\* integer part and scaling by 2^29 are exact in binary64.
FloatDivSplit(n, h, x) ==
    LET qr    == MulDivMod(n, h, x)
        nlow  == 53 - BitLen(qr[1]) - 29
        top   == FracBits(qr[2], x, 29)
        low   == FracBits(top[2], x, nlow)
        lsb   == IF nlow = 0 THEN top[1] % 2 ELSE low[1] % 2
        up    == (2 * low[2] > x) \/ (2 * low[2] = x /\ lsb = 1)
        low1  == IF up THEN low[1] + 1 ELSE low[1]
        top1  == IF low1 = Pow2(nlow) THEN top[1] + 1 ELSE top[1]
    IN  IF top1 = TwoTo29 THEN <<qr[1] + 1, 0>> ELSE <<qr[1], top1>>

calculate_m(ls_div, hs_div, f, xtal_freq) ==
    FloatDivSplit(Pow2(ls_div) * f, hs_div, xtal_freq)

\* corrected_xtal_freq: int(float(FXO) * (1.0 + xtal_corr / 10000000.0)).
\* FXO * c / 10^7 = 3198 * c / 1000; for an integer c that is 0 or no
\* multiple of 500 the exact value is 0 or at least 0.002 away from an
\* integer, far more than binary64's rounding error, so int() truncates to
\* the floor computed here.  XtalCorrs holds only such values.
corrected_xtal_freq(c) == FXO + (((FXO \div 10000) * c) \div 1000)

----------------------------------------------------------------------------
(* Loop-filter selector *)

\* ceil(d * 2^29 / 10^9) for the nine decimal digits d of a fraction
\* (d * 2^29 / 10^9 = d * 2^20 / 5^9).
CeilScale29(d) ==
    LET p == FracBits(d % 1953125, 1953125, 20)
    IN  (d \div 1953125) * Pow2(20) + p[1] + (IF p[2] > 0 THEN 1 ELSE 0)

\* The breakpoints of calculate_lp, each as <<integer part, smallest 29-bit
\* fraction not below the breakpoint>>.  m = m_int + m_frac / 2^29 is exact
\* in binary64, and no breakpoint (nor the double nearest to it) is a
\* multiple of 2^-29, so m < breakpoint is the lexicographic comparison.
LP_BREAK_1 == <<65, CeilScale29(259980246)>>
LP_BREAK_2 == <<67, CeilScale29(859763463)>>
LP_BREAK_3 == <<72, CeilScale29(937624981)>>
LP_BREAK_4 == <<75, CeilScale29(843265046)>>

MLess(mi, mf, t) == mi < t[1] \/ (mi = t[1] /\ mf < t[2])

\* calculate_lp with the coefficients of the third bucket exchanged
calculate_lp_third_swapped(mi, mf) ==
    IF MLess(mi, mf, LP_BREAK_1) THEN <<2, 2>>
    ELSE IF MLess(mi, mf, LP_BREAK_2) THEN <<2, 3>>
    ELSE IF MLess(mi, mf, LP_BREAK_3) THEN <<3, 2>>
    ELSE IF MLess(mi, mf, LP_BREAK_4) THEN <<3, 4>>
    ELSE <<4, 4>>

calculate_lp(mi, mf) ==
    IF MLess(mi, mf, LP_BREAK_1) THEN <<2, 2>>
    ELSE IF MLess(mi, mf, LP_BREAK_2) THEN <<2, 3>>
    ELSE IF MLess(mi, mf, LP_BREAK_3) THEN <<3, 3>>
    ELSE IF MLess(mi, mf, LP_BREAK_4) THEN <<3, 4>>
    ELSE <<4, 4>>

----------------------------------------------------------------------------
(* Register image *)

MRegs == {REG_M_FRAC1, REG_M_FRAC2, REG_M_FRAC3, REG_M_INT_FRAC, REG_M_INT}
Regs  == {REG_LP, REG_HS_DIV, REG_LS_HS_DIV, REG_CONTROL} \cup MRegs

\* reg05..reg09 as set_freq_large and set_freq_small build them
PackMultiplier(mi, mf) ==
    [r \in MRegs |->
        CASE r = REG_M_FRAC1    -> mf % 256
          [] r = REG_M_FRAC2    -> (mf \div 256) % 256
          [] r = REG_M_FRAC3    -> (mf \div 65536) % 256
          [] r = REG_M_INT_FRAC -> (mi % 8) * 32 + ((mf \div 16777216) % 32)
          [] r = REG_M_INT      -> (mi \div 8) % 64]

\* reg00, reg10, reg11 as set_freq_large builds them
PackLp(lp) == lp[1] * 16 + lp[2]
PackHsDiv(hs_div) == hs_div % 256
PackLsHsDiv(ls_div, hs_div) == (ls_div % 8) * 16 + ((hs_div \div 256) % 4)

\* <<m_int, m_frac>> as set_freq_small rebuilds them from the bytes read
\* the read-back of set_freq_small with both fields taken as signed
\* (two's complement on 8 and 29 bits)
UnpackMultiplierSigned(regs) ==
    LET mi == ((regs[REG_M_INT_FRAC] \div 32) % 8) + ((regs[REG_M_INT] % 32) * 8)
        mf == ((regs[REG_M_INT_FRAC] % 32) * 16777216) + (regs[REG_M_FRAC3] * 65536)
                  + (regs[REG_M_FRAC2] * 256) + regs[REG_M_FRAC1]
    IN  << IF mi >= 128 THEN mi - 256 ELSE mi,
           IF mf >= TwoTo29 \div 2 THEN mf - TwoTo29 ELSE mf >>

\* the read-back of set_freq_small keeping three bits of register 9
UnpackMultiplierNarrow(regs) ==
    << ((regs[REG_M_INT_FRAC] \div 32) % 8) + ((regs[REG_M_INT] % 8) * 8),
       ((regs[REG_M_INT_FRAC] % 32) * 16777216) + (regs[REG_M_FRAC3] * 65536)
           + (regs[REG_M_FRAC2] * 256) + regs[REG_M_FRAC1] >>

UnpackMultiplier(regs) ==
    LET reg05 == regs[REG_M_FRAC1]
        reg06 == regs[REG_M_FRAC2]
        reg07 == regs[REG_M_FRAC3]
        reg08 == regs[REG_M_INT_FRAC]
        reg09 == regs[REG_M_INT]
    IN  << ((reg08 \div 32) % 8) + ((reg09 % 32) * 8),
           ((reg08 % 32) * 16777216) + (reg07 * 65536) + (reg06 * 256) + reg05 >>

----------------------------------------------------------------------------
(* Bounds and input sets of the driver specification *)

MaxGlitches == 1
MaxWriteFaults == 1

\* target frequencies offered to set_freq_large and set_freq_small
Freqs == {10000000, 10000100, freq_max}

\* crystal corrections the driver may be constructed with
XtalCorrs == {0, 125}

\* <<register, bit>>: the bits an out-of-band change may flip.  Bit 5 of
\* M_INT_FRAC is multiplier_integer[0], bit 5 of M_INT is
\* multiplier_integer[8].
GlitchPoints == {<<REG_M_INT_FRAC, 5>>, <<REG_M_INT, 5>>}

\* frequencies offered to the divider solver
SolverGrid == 400

\* For every base divider b and half divider k, the smallest frequency at
\* which 2^b * 2k * f reaches FVCO_MIN, and the frequency just below it:
\* the places where calculate_hs_div changes its result.
SolverEdges ==
    UNION { { ((FVCO_MIN \div 2) + Pow2(b) * k - 1) \div (Pow2(b) * k),
              (((FVCO_MIN \div 2) + Pow2(b) * k - 1) \div (Pow2(b) * k)) - 1 } :
            b \in 0..5, k \in (HS_DIV_MIN \div 2)..(HS_DIV_MAX \div 2) }

SolverFreqs ==
    {f \in SolverEdges : MIN_FREQ <= f /\ f <= MAX_FREQ}
    \cup {MIN_FREQ + i * ((MAX_FREQ - MIN_FREQ) \div SolverGrid) : i \in 0..SolverGrid}
    \cup {MIN_FREQ, 10000000, freq_max, freq_max + 1, MAX_FREQ}

\* the frequencies for which LargeTable is tabulated: Freqs and the solver's
\* frequencies inside the range the command line accepts
TableFreqs == Freqs \cup {f \in SolverFreqs : freq_min <= f /\ f <= freq_max}

----------------------------------------------------------------------------
(* Register transport.  A transport operation is recorded once it has      *)
(* completed; an attempt that raised is not.                               *)

WriteOp(r, v) == [op |-> "w", reg |-> r, val |-> v]
ReadOp(r, v)  == [op |-> "r", reg |-> r, val |-> v]

Max(S) == CHOOSE x \in S : \A y \in S : y <= x

\* the register file c after the writes of the operation sequence s
Written(c, s) ==
    [r \in DOMAIN c |->
        LET idx == {i \in 1..Len(s) : s[i].op = "w" /\ s[i].reg = r}
        IN  IF idx = {} THEN c[r] ELSE s[Max(idx)].val]

\* the write of calibrate_vcxo carrying the calibrate bit alone
BitOrFresh(value, bit) == bit

\* value | bit, for bit a power of two
BitOr(value, bit) == IF (value \div bit) % 2 = 1 THEN value ELSE value + bit

\* output_disable writing the enable bit
output_disable_ops_enabling == <<WriteOp(REG_CONTROL, OUTPUT_ENABLE)>>

output_enable_ops  == <<WriteOp(REG_CONTROL, OUTPUT_ENABLE)>>
output_disable_ops == <<WriteOp(REG_CONTROL, 0)>>

\* calibrate_vcxo on the register file c, once its read has succeeded
calibrate_vcxo_ops(c) ==
    LET value == c[REG_CONTROL]
    IN  << ReadOp(REG_CONTROL, value),
           WriteOp(REG_CONTROL, BitOr(value, CALIBRATE)) >>

\* "Calculate required constants" of set_freq_large
LargeValues(f, xc) ==
    LET ls_div    == calculate_ls_div(f)
        hs_div    == calculate_hs_div(f, ls_div)
        xtal_freq == corrected_xtal_freq(xc)
        m         == calculate_m(ls_div, hs_div, f, xtal_freq)
        lp        == calculate_lp(m[1], m[2])
    IN  [ls_div |-> ls_div, hs_div |-> hs_div, m |-> m, lp |-> lp]

\* LargeValues tabulated over the inputs of the specification, so that it
\* is evaluated once for each
LargeTable == [f \in TableFreqs, xc \in XtalCorrs |-> LargeValues(f, xc)]

\* the eight register writes followed at once by an output enable
LargeWritesThenEnable(v) ==
    LET pm == PackMultiplier(v.m[1], v.m[2])
    IN  << WriteOp(REG_LP, PackLp(v.lp)),
           WriteOp(REG_M_FRAC1, pm[REG_M_FRAC1]),
           WriteOp(REG_M_FRAC2, pm[REG_M_FRAC2]),
           WriteOp(REG_M_FRAC3, pm[REG_M_FRAC3]),
           WriteOp(REG_M_INT_FRAC, pm[REG_M_INT_FRAC]),
           WriteOp(REG_M_INT, pm[REG_M_INT]),
           WriteOp(REG_HS_DIV, PackHsDiv(v.hs_div)),
           WriteOp(REG_LS_HS_DIV, PackLsHsDiv(v.ls_div, v.hs_div)),
           WriteOp(REG_CONTROL, OUTPUT_ENABLE) >>

\* "Program the I2C registers" of set_freq_large: the eight writes, in order
LargeWrites(v) ==
    LET pm == PackMultiplier(v.m[1], v.m[2])
    IN  << WriteOp(REG_LP, PackLp(v.lp)),
           WriteOp(REG_M_FRAC1, pm[REG_M_FRAC1]),
           WriteOp(REG_M_FRAC2, pm[REG_M_FRAC2]),
           WriteOp(REG_M_FRAC3, pm[REG_M_FRAC3]),
           WriteOp(REG_M_INT_FRAC, pm[REG_M_INT_FRAC]),
           WriteOp(REG_M_INT, pm[REG_M_INT]),
           WriteOp(REG_HS_DIV, PackHsDiv(v.hs_div)),
           WriteOp(REG_LS_HS_DIV, PackLsHsDiv(v.ls_div, v.hs_div)) >>

\* the five reads that open set_freq_small, in order
SmallReads(c) ==
    << ReadOp(REG_M_FRAC1, c[REG_M_FRAC1]),
       ReadOp(REG_M_FRAC2, c[REG_M_FRAC2]),
       ReadOp(REG_M_FRAC3, c[REG_M_FRAC3]),
       ReadOp(REG_M_INT_FRAC, c[REG_M_INT_FRAC]),
       ReadOp(REG_M_INT, c[REG_M_INT]) >>

\* set_freq_small's writes without the last one (M_INT)
SmallWritesFour(mi, mf) ==
    LET pm == PackMultiplier(mi, mf)
    IN  << WriteOp(REG_M_FRAC1, pm[REG_M_FRAC1]),
           WriteOp(REG_M_FRAC2, pm[REG_M_FRAC2]),
           WriteOp(REG_M_FRAC3, pm[REG_M_FRAC3]),
           WriteOp(REG_M_INT_FRAC, pm[REG_M_INT_FRAC]) >>

\* set_freq_small's writes with the fraction one unit off
SmallWritesOffByOne(mi, mf) ==
    LET pm == PackMultiplier(mi, (mf + 1) % TwoTo29)
    IN  << WriteOp(REG_M_FRAC1, pm[REG_M_FRAC1]),
           WriteOp(REG_M_FRAC2, pm[REG_M_FRAC2]),
           WriteOp(REG_M_FRAC3, pm[REG_M_FRAC3]),
           WriteOp(REG_M_INT_FRAC, pm[REG_M_INT_FRAC]),
           WriteOp(REG_M_INT, pm[REG_M_INT]) >>

\* the five writes that close a set_freq_small whose check passed.  The
\* bytes are rebuilt from m_int and m_frac as read back: m_new is computed
\* (line 254) and never used.
SmallWrites(mi, mf) ==
    LET pm == PackMultiplier(mi, mf)
    IN  << WriteOp(REG_M_FRAC1, pm[REG_M_FRAC1]),
           WriteOp(REG_M_FRAC2, pm[REG_M_FRAC2]),
           WriteOp(REG_M_FRAC3, pm[REG_M_FRAC3]),
           WriteOp(REG_M_INT_FRAC, pm[REG_M_INT_FRAC]),
           WriteOp(REG_M_INT, pm[REG_M_INT]) >>

----------------------------------------------------------------------------
(* The driver *)

Idle == [fn |-> "idle"]

Init ==
    /\ m_int = -1
    /\ m_frac = -1
    /\ freq = 0
    /\ xtal_corr \in XtalCorrs
    /\ chip = [r \in Regs |-> 0]
    /\ call = [name |-> "__init__", arg |-> 0]
    /\ result = "ok"
    /\ ops = <<>>
    /\ swallowed = 0
    /\ glitches = 0
    /\ calc = Idle

output_enable(faults) ==
    /\ ops' = output_enable_ops
    /\ chip' = Written(chip, output_enable_ops)
    /\ call' = [name |-> "output_enable", arg |-> 0]
    /\ result' = "ok"
    /\ swallowed' = faults
    /\ UNCHANGED <<m_int, m_frac, freq, xtal_corr, glitches, calc>>

output_disable(faults) ==
    /\ ops' = output_disable_ops
    /\ chip' = Written(chip, output_disable_ops)
    /\ call' = [name |-> "output_disable", arg |-> 0]
    /\ result' = "ok"
    /\ swallowed' = faults
    /\ UNCHANGED <<m_int, m_frac, freq, xtal_corr, glitches, calc>>

\* reset() calls write_to_register with one argument where two are
\* required: Python raises TypeError before the transport is touched.
reset ==
    /\ ops' = <<>>
    /\ call' = [name |-> "reset", arg |-> 0]
    /\ result' = "TypeError"
    /\ swallowed' = 0
    /\ UNCHANGED <<m_int, m_frac, freq, xtal_corr, chip, glitches, calc>>

\* read_from_register does not catch: a ReadRegister that raises (rfault)
\* ends the call.
calibrate_vcxo(faults, rfault) ==
    /\ call' = [name |-> "calibrate_vcxo", arg |-> 0]
    /\ IF rfault
       THEN /\ ops' = <<>>
            /\ result' = "TransportError"
            /\ swallowed' = 0
            /\ UNCHANGED chip
       ELSE /\ ops' = calibrate_vcxo_ops(chip)
            /\ chip' = Written(chip, calibrate_vcxo_ops(chip))
            /\ result' = "ok"
            /\ swallowed' = faults
    /\ UNCHANGED <<m_int, m_frac, freq, xtal_corr, glitches, calc>>

\* set_freq_large storing the multiplier and leaving the frequency stale
StoreValuesStaleFreq(v, f) ==
    /\ m_int' = v.m[1]
    /\ m_frac' = v.m[2]
    /\ freq' = freq

\* "Store values for later use" of set_freq_large
StoreValues(v, f) ==
    /\ m_int' = v.m[1]
    /\ m_frac' = v.m[2]
    /\ freq' = f

\* set_freq_large on the driver's own state
set_freq_large_call(f, faults, rfault) ==
    LET v    == LargeTable[f, xtal_corr]
        pre  == output_disable_ops \o LargeWrites(v)
        c1   == Written(chip, pre)
        all  == pre \o calibrate_vcxo_ops(c1) \o output_enable_ops
    IN  /\ call' = [name |-> "set_freq_large", arg |-> f]
        /\ swallowed' = faults
        /\ IF rfault
           THEN /\ ops' = pre
                /\ chip' = c1
                /\ result' = "TransportError"
                /\ UNCHANGED <<m_int, m_frac, freq>>
           ELSE /\ ops' = all
                /\ chip' = Written(chip, all)
                /\ result' = "ok"
                /\ StoreValues(v, f)
        /\ UNCHANGED <<xtal_corr, glitches>>

set_freq_large(f, faults, rfault) ==
    /\ set_freq_large_call(f, faults, rfault)
    /\ UNCHANGED calc

\* rfault = k > 0: the k-th of the five reads raises.
set_freq_small(f, faults, rfault) ==
    LET reads == SmallReads(chip)
        m     == UnpackMultiplier(chip)
        wr    == SmallWrites(m[1], m[2])
    IN  /\ call' = [name |-> "set_freq_small", arg |-> f]
        /\ IF rfault > 0
           THEN /\ ops' = SubSeq(reads, 1, rfault - 1)
                /\ result' = "TransportError"
                /\ swallowed' = 0
                /\ UNCHANGED chip
           ELSE IF (m[2] = m_frac) /\ (m[1] = m_int)
           THEN IF freq = 0
                THEN /\ ops' = reads
                     /\ result' = "ZeroDivisionError"
                     /\ swallowed' = 0
                     /\ UNCHANGED chip
                ELSE /\ ops' = reads \o wr
                     /\ chip' = Written(chip, wr)
                     /\ result' = "ok"
                     /\ swallowed' = faults
           ELSE /\ ops' = reads
                /\ result' = "ValueError"
                /\ swallowed' = 0
                /\ UNCHANGED chip
        /\ UNCHANGED <<m_int, m_frac, freq, xtal_corr, glitches, calc>>

\* The chip is changed behind the driver's back: one bit of one multiplier
\* register flips.
chip_glitch(r, b) ==
    /\ glitches < MaxGlitches
    /\ glitches' = glitches + 1
    /\ chip' = [chip EXCEPT ![r] =
                    IF (@ \div Pow2(b)) % 2 = 1 THEN @ - Pow2(b) ELSE @ + Pow2(b)]
    /\ call' = [name |-> "chip_glitch", arg |-> r]
    /\ result' = "none"
    /\ ops' = <<>>
    /\ swallowed' = 0
    /\ UNCHANGED <<m_int, m_frac, freq, xtal_corr, calc>>

Next ==
    \/ \E n \in 0..MaxWriteFaults : output_enable(n)
    \/ \E n \in 0..MaxWriteFaults : output_disable(n)
    \/ reset
    \/ \E rf \in BOOLEAN :
          \E n \in (IF rf THEN {0} ELSE 0..MaxWriteFaults) : calibrate_vcxo(n, rf)
    \/ \E f \in Freqs, n \in 0..MaxWriteFaults, rf \in BOOLEAN :
          set_freq_large(f, n, rf)
    \/ \E f \in Freqs, rf \in 0..5 :
          \E n \in (IF rf > 0 THEN {0} ELSE 0..MaxWriteFaults) :
              set_freq_small(f, n, rf)
    \/ \E p \in GlitchPoints : chip_glitch(p[1], p[2])

Spec == Init /\ [][Next]_vars

----------------------------------------------------------------------------
(* Specifications of the pure functions: the inputs are drawn by Init and  *)
(* one action applies the function.  The driver is left as constructed.    *)

FreshDriver ==
    /\ m_int = -1
    /\ m_frac = -1
    /\ freq = 0
    /\ xtal_corr = 0
    /\ chip = [r \in Regs |-> 0]
    /\ call = [name |-> "__init__", arg |-> 0]
    /\ result = "ok"
    /\ ops = <<>>
    /\ swallowed = 0
    /\ glitches = 0

(* Divider solver *)

SolverInit ==
    /\ FreshDriver
    /\ calc \in [fn : {"solve"}, f : SolverFreqs, done : {FALSE},
                 ls_div : {0}, hs_div : {0}, m : {<<0, 0>>}]

Solve ==
    /\ calc.fn = "solve" /\ ~calc.done
    /\ LET ls_div == calculate_ls_div(calc.f)
           hs_div == calculate_hs_div(calc.f, ls_div)
       IN  calc' = [calc EXCEPT !.done = TRUE, !.ls_div = ls_div, !.hs_div = hs_div,
                                !.m = calculate_m(ls_div, hs_div, calc.f,
                                                  corrected_xtal_freq(xtal_corr))]
    /\ UNCHANGED driver_vars

SolverSpec == SolverInit /\ [][Solve]_vars

(* Register image of the multiplier *)

\* multiplier fractions: every single bit, every run of low bits, and
\* PackSamples values spread over [0, 2^29)
PackSamples == 8

PackFracs ==
    {Pow2(k) : k \in 0..28} \cup {Pow2(k) - 1 : k \in 0..29}
    \cup {(i * 1234577 * 7) % TwoTo29 : i \in 1..PackSamples}

PackInit ==
    /\ FreshDriver
    /\ calc \in [fn : {"pack"}, m_int : 0..511, m_frac : PackFracs, done : {FALSE},
                 regs : {<<>>}, out : {<<0, 0>>}]

\* the five bytes set_freq_large writes for calc.m_int, calc.m_frac, and
\* what set_freq_small rebuilds when it reads them back
PackUnpack ==
    /\ calc.fn = "pack" /\ ~calc.done
    /\ LET regs == PackMultiplier(calc.m_int, calc.m_frac)
       IN  calc' = [calc EXCEPT !.done = TRUE, !.regs = regs,
                                !.out = UnpackMultiplier(regs)]
    /\ UNCHANGED driver_vars

PackSpec == PackInit /\ [][PackUnpack]_vars

(* Loop-filter selector *)

LpIntMin == 63
LpIntSpan == 15

\* floor(mf * 10^9 / 2^29): the first nine decimal digits of mf / 2^29
\* (mf * 10^9 / 2^29 = mf * 5^9 / 2^20, by long multiplication in base 125)
DecFrac9(mf) ==
    LET x  == Pow2(20)
        r0 == mf % x
        q1 == (125 * r0) \div x
        r1 == (125 * r0) % x
        q2 == 125 * q1 + ((125 * r1) \div x)
        r2 == (125 * r1) % x
        q3 == 125 * q2 + ((125 * r2) \div x)
    IN  (mf \div x) * 1953125 + q3

\* multiplier fractions around every breakpoint of calculate_lp, and the ends
LpFracs ==
    {0, 1, TwoTo29 \div 2, TwoTo29 - 1}
    \cup UNION { {t[2] - 2, t[2] - 1, t[2], t[2] + 1} :
                 t \in {LP_BREAK_1, LP_BREAK_2, LP_BREAK_3, LP_BREAK_4} }

LpInputs == (LpIntMin..(LpIntMin + LpIntSpan)) \X LpFracs

LpInit ==
    /\ FreshDriver
    /\ calc \in [fn : {"lp"}, a : LpInputs, b : LpInputs, done : {FALSE},
                 lp_a : {<<0, 0>>}, lp_b : {<<0, 0>>}]

SelectFilter ==
    /\ calc.fn = "lp" /\ ~calc.done
    /\ calc' = [calc EXCEPT !.done = TRUE,
                            !.lp_a = calculate_lp(calc.a[1], calc.a[2]),
                            !.lp_b = calculate_lp(calc.b[1], calc.b[2])]
    /\ UNCHANGED driver_vars

LpSpec == LpInit /\ [][SelectFilter]_vars

(* Bus scan, src/python/scanbus.py *)

\* default address bounds of the scan
lower == 0
upper == 127

MaxScanFaults == 1

\* the values given with -l and -u: argparse (nargs=1) yields a one-element
\* list, or None (here the empty sequence) for an option that is absent
ScanLowerArgs == {<<>>, <<0>>, <<118>>}
ScanUpperArgs == {<<>>, <<120>>, <<127>>}

\* the addresses at which a device may answer
ScanResponders == {0, 119, 121, 127}

ScanInit ==
    /\ FreshDriver
    /\ calc \in [fn : {"scanbus"}, lower_arg : ScanLowerArgs, upper_arg : ScanUpperArgs,
                 responding : SUBSET ScanResponders, done : {FALSE},
                 probed : {<<>>}, validAddresses : {<<>>}, retried : {0},
                 stdout : {"none"}, stderr : {"none"}]

\* The whole of __main__.  args.lower and args.upper are parsed and never
\* read: the validation and the loop use the variables lower and upper,
\* which keep their initial values.
scanbus(open_fails, faults) ==
    /\ calc.fn = "scanbus" /\ ~calc.done
    /\ LET IsValid(address) == address \in calc.responding
           addresses == [i \in 1..(upper + 1 - lower) |-> lower + i - 1]
           found     == SelectSeq(addresses, IsValid)
       IN  IF lower < 0
           THEN calc' = [calc EXCEPT !.done = TRUE, !.stderr = "lower must be >= 0"]
           ELSE IF upper > 127
           THEN calc' = [calc EXCEPT !.done = TRUE, !.stderr = "upper must be <= 127"]
           ELSE IF lower > upper
           THEN calc' = [calc EXCEPT !.done = TRUE, !.stderr = "lower must be <= upper"]
           ELSE IF open_fails
           THEN calc' = [calc EXCEPT !.done = TRUE, !.stderr = "Error"]
           ELSE calc' = [calc EXCEPT !.done = TRUE,
                                     !.probed = addresses,
                                     !.validAddresses = found,
                                     !.retried = faults,
                                     !.stdout = IF Len(found) > 0
                                                THEN "Device found"
                                                ELSE "No devices found"]
    /\ UNCHANGED driver_vars

ScanSpec ==
    ScanInit /\ [][\E o \in BOOLEAN :
                     \E n \in (IF o THEN {0} ELSE 0..MaxScanFaults) : scanbus(o, n)]_vars

(* Frequency-set entry point, __main__ of src/python/py514.py *)

\* the value given with -f (a one-element list), or None (the empty
\* sequence): every tabulated frequency, and values outside the range
MainArgs ==
    {<<>>} \cup {<<f>> : f \in TableFreqs \cup {0, freq_min - 1, freq_max + 1, MAX_FREQ}}

\* status holds the exit status of the process once it has ended
MainInit ==
    /\ FreshDriver
    /\ calc \in [fn : {"main"}, freq_arg : MainArgs, done : {FALSE},
                 stderr : {"none"}, status : {<<>>}]

\* The whole of __main__.  sys.exit() is called without an argument, which
\* ends the process with status 0, as does running off the end.
main(open_fails, faults, rfault) ==
    /\ calc.fn = "main" /\ ~calc.done
    /\ LET f == IF calc.freq_arg = <<>> THEN 10000000 ELSE calc.freq_arg[1]
       IN  IF (f < freq_min) \/ (f > freq_max)
           THEN /\ calc' = [calc EXCEPT !.done = TRUE, !.status = <<0>>,
                                        !.stderr = "Error: Frequency must be in the range"]
                /\ UNCHANGED driver_vars
           ELSE IF open_fails
           THEN /\ calc' = [calc EXCEPT !.done = TRUE, !.status = <<0>>,
                                        !.stderr = "Error"]
                /\ UNCHANGED driver_vars
           ELSE /\ set_freq_large_call(f, faults, rfault)
                /\ calc' = [calc EXCEPT !.done = TRUE, !.status = <<0>>,
                                        !.stderr = IF rfault THEN "Error" ELSE "none"]

MainSpec ==
    MainInit /\ [][\E o \in BOOLEAN :
                     \E rf \in (IF o THEN {FALSE} ELSE BOOLEAN) :
                       \E n \in (IF o THEN {0} ELSE 0..MaxWriteFaults) :
                         main(o, n, rf)]_vars

(* A large change followed by small changes, over the whole range of the *)
(* command line.  The chip returns what was last written to it.           *)

ReadBackInit ==
    /\ FreshDriver
    /\ calc \in [fn : {"readback"}, f : TableFreqs]

ReadBackNext ==
    \/ \E n \in 0..MaxWriteFaults, rf \in BOOLEAN : set_freq_large(calc.f, n, rf)
    \/ \E rf \in 0..5 :
          \E n \in (IF rf > 0 THEN {0} ELSE 0..MaxWriteFaults) :
              set_freq_small(calc.f, n, rf)

ReadBackSpec == ReadBackInit /\ [][ReadBackNext]_vars

(* A driver on which no set_freq_large has completed, in front of a chip   *)
(* whose multiplier registers hold any of FreshBytes.                      *)

\* 0x00, 0x1F (the low five bits), 0xE0 (the high three bits), 0xFF
FreshBytes == {0, 31, 224, 255}

FreshInit ==
    /\ m_int = -1
    /\ m_frac = -1
    /\ freq = 0
    /\ xtal_corr = 0
    /\ chip \in {c \in [Regs -> FreshBytes] : \A r \in Regs \ MRegs : c[r] = 0}
    /\ call = [name |-> "__init__", arg |-> 0]
    /\ result = "ok"
    /\ ops = <<>>
    /\ swallowed = 0
    /\ glitches = 0
    /\ calc = [fn |-> "fresh"]

FreshNext ==
    \/ \E f \in Freqs, n \in 0..MaxWriteFaults : set_freq_large(f, n, TRUE)
    \/ \E f \in Freqs, rf \in 0..5 :
          \E n \in (IF rf > 0 THEN {0} ELSE 0..MaxWriteFaults) :
              set_freq_small(f, n, rf)
    \/ \E p \in GlitchPoints : chip_glitch(p[1], p[2])

FreshSpec == FreshInit /\ [][FreshNext]_vars

----------------------------------------------------------------------------
(* What the claims speak of *)

IsWrite(o) == o.op = "w"
IsRead(o)  == o.op = "r"

\* the writes among the transport operations of the last call, in order
Writes(s) == SelectSeq(s, IsWrite)

\* the bytes the last call read from (kind "r") or wrote to (kind "w") the
\* five multiplier registers; each must occur in s
OpImage(s, kind) ==
    [r \in MRegs |->
        LET idx == {i \in 1..Len(s) : s[i].op = kind /\ s[i].reg = r}
        IN  s[Max(idx)].val]

HasAll(s, kind) ==
    \A r \in MRegs : \E i \in 1..Len(s) : s[i].op = kind /\ s[i].reg = r

\* <<multiplier_integer, multiplier_fraction>> held by five register bytes
\* according to the register map: M_INT [5:0] = integer [8:3],
\* M_INT_FRAC [7:5] = integer [2:0], [4:0] = fraction [28:24],
\* M_FRAC3..1 = fraction [23:0]
RegisterMapMultiplier(regs) ==
    << ((regs[REG_M_INT] % 64) * 8) + ((regs[REG_M_INT_FRAC] \div 32) % 8),
       ((regs[REG_M_INT_FRAC] % 32) * 16777216) + (regs[REG_M_FRAC3] * 65536)
           + (regs[REG_M_FRAC2] * 256) + regs[REG_M_FRAC1] >>

BitSet(value, bit) == (value \div bit) % 2 = 1

\* floor((mi + mf / 2^29) * fn / fo * 2^29), exactly, as
\* <<integer part, 29-bit fraction>>, for 0 < fo and fn, fo <= MAX_FREQ
ScaledMultiplier(mi, mf, fn, fo) ==
    LET a  == fn \div fo
        b  == fn % fo
        qa == MulDivMod(mf, a, TwoTo29)
        q1 == MulDivMod4(b, mi, fo)
        q3 == MulDivMod4(b, mf, fo)
        q4 == MulDivMod4(q1[2], TwoTo29, fo)
        s  == qa[2] + q3[1] + q4[1] + ((q3[2] + q4[2]) \div fo)
    IN  << (mi * a) + q1[1] + qa[1] + (s \div TwoTo29), s % TwoTo29 >>

----------------------------------------------------------------------------
(* Claims *)

SolvedInCliRange ==
    /\ calc.fn = "solve"
    /\ calc.done
    /\ freq_min <= calc.f
    /\ calc.f <= freq_max

\* C1: for every frequency f in [100000, 170000000] the implied VCO
\* frequency 2^ls_div * hs_div * f of the solver's result lies in
\* [2080000000, 2500000000].
C1_VcoInRange ==
    SolvedInCliRange =>
        /\ ProdGE(Pow2(calc.ls_div) * calc.f, calc.hs_div, FVCO_MIN)
        /\ ProdLE2(Pow2(calc.ls_div) * calc.f, calc.hs_div, FVCO_MAX_HALF)

C1_Witness ==
    /\ SolvedInCliRange
    /\ calc.f = freq_max
    /\ calc.ls_div = 0
    /\ calc.hs_div = 14

\* C2: for every frequency f in [100000, 170000000] calculate_hs_div returns
\* an even integer in [10, 1022] and calculate_ls_div a value in [0, 5].
C2_DividersInRange ==
    SolvedInCliRange =>
        /\ calc.hs_div % 2 = 0
        /\ HS_DIV_MIN <= calc.hs_div
        /\ calc.hs_div <= HS_DIV_MAX
        /\ calc.ls_div \in 0..5

C2_Witness ==
    /\ SolvedInCliRange
    /\ calc.f = freq_min
    /\ calc.ls_div = 5
    /\ calc.hs_div = 650

\* C3: packing any multiplier_integer in [0, 2^9) and multiplier_fraction in
\* [0, 2^29) into registers 5..9 as set_freq_large does and unpacking the
\* bytes as set_freq_small does gives back the same pair.
C3_RoundTrip ==
    (calc.fn = "pack" /\ calc.done) => calc.out = <<calc.m_int, calc.m_frac>>

\* C4: whenever the multiplier that the five registers hold according to
\* the register map differs from the cached one, set_freq_small fails with
\* the state-mismatch error (ValueError) and writes no register.
C4_MismatchFails ==
    ( /\ call.name = "set_freq_small"
      /\ HasAll(ops, "r")
      /\ RegisterMapMultiplier(OpImage(ops, "r")) # <<m_int, m_frac>> )
    => (result = "ValueError" /\ Writes(ops) = <<>>)

\* C5: when the check of set_freq_small(new_freq) passes, the five bytes
\* written hold floor(m_new) and floor(frac(m_new) * 2^29) for
\* m_new = m_old * new_freq / cached_freq.
C5_WritesScaled ==
    (call.name = "set_freq_small" /\ result = "ok") =>
        RegisterMapMultiplier(OpImage(ops, "w"))
            = ScaledMultiplier(m_int, m_frac, call.arg, freq)

\* C6: a successful set_freq_small issues exactly five writes, one to each
\* of registers 5, 6, 7, 8, 9, and none to registers 0, 10, 11 or 132.
C6_SmallWritesFive ==
    (call.name = "set_freq_small" /\ result = "ok") =>
        LET w == Writes(ops)
        IN  /\ Len(w) = 5
            /\ {w[i].reg : i \in 1..Len(w)} = {5, 6, 7, 8, 9}
            /\ \A i \in 1..Len(w) : w[i].reg \notin {0, 10, 11, 132}

C6_Witness ==
    /\ call.name = "set_freq_small"
    /\ result = "ok"
    /\ Len(Writes(ops)) = 5
    /\ call.arg # freq

\* C7: the cache (m_int, m_frac, freq) changes only in a set_freq_large that
\* completes, which sets it to the multiplier it computed (and wrote) and
\* to the requested frequency; every other step leaves it as it was.
C7_CacheFrame ==
    [][ /\ (<<m_int, m_frac, freq>>' # <<m_int, m_frac, freq>>)
            => (call'.name = "set_freq_large" /\ result' = "ok")
        /\ (call'.name = "set_freq_large" /\ result' = "ok")
            => /\ freq' = call'.arg
               /\ <<m_int', m_frac'>> = LargeValues(call'.arg, xtal_corr).m
               /\ <<m_int', m_frac'>> = RegisterMapMultiplier(OpImage(ops', "w"))
        /\ (call'.name = "set_freq_small")
            => <<m_int, m_frac, freq>>' = <<m_int, m_frac, freq>>
      ]_vars

C7_Witness ==
    /\ call.name = "set_freq_small"
    /\ result = "ok"
    /\ call.arg # freq
    /\ m_int = 65
    /\ freq = 10000000

\* C8: in a successful set_freq_large the writes are, in order: the control
\* register with the output-enable bit clear; one write to each of
\* registers 0, 5, 6, 7, 8, 9, 10, 11; the control register with the
\* calibrate bit set; the control register with the output-enable bit set.
C8_LargeOrder ==
    (call.name = "set_freq_large" /\ result = "ok") =>
        LET w == Writes(ops)
        IN  /\ Len(w) = 11
            /\ w[1].reg = REG_CONTROL /\ ~BitSet(w[1].val, OUTPUT_ENABLE)
            /\ {w[i].reg : i \in 2..9} = {0, 5, 6, 7, 8, 9, 10, 11}
            /\ \A i \in 2..9 :
                  ~(w[i].reg = REG_CONTROL /\ BitSet(w[i].val, OUTPUT_ENABLE))
            /\ w[10].reg = REG_CONTROL /\ BitSet(w[10].val, CALIBRATE)
            /\ w[11].reg = REG_CONTROL /\ BitSet(w[11].val, OUTPUT_ENABLE)

C8_Witness ==
    /\ call.name = "set_freq_large"
    /\ result = "ok"
    /\ Len(ops) = 12
    /\ chip[REG_CONTROL] = OUTPUT_ENABLE

\* C9: a set_freq_small(f) that directly follows a successful
\* set_freq_large(f) leaves the five multiplier registers holding the bytes
\* they held before it.
C9_SameFreqNoOp ==
    [][ ( /\ call.name = "set_freq_large"
          /\ result = "ok"
          /\ call'.name = "set_freq_small"
          /\ call'.arg = call.arg )
        => \A r \in MRegs : chip'[r] = chip[r]
      ]_vars

C9_Witness ==
    /\ call.name = "set_freq_small"
    /\ result = "ok"
    /\ call.arg = freq
    /\ glitches = 0
    /\ \A r \in MRegs : chip[r] = OpImage(ops, "r")[r]

\* m < ti + td / 10^9 for the multiplier m = a[1] + a[2] / 2^29
BelowDecimal(a, ti, td) == a[1] < ti \/ (a[1] = ti /\ DecFrac9(a[2]) < td)

MLeq(a, b) == a[1] < b[1] \/ (a[1] = b[1] /\ a[2] <= b[2])

\* C10: calculate_lp maps the multipliers below 65.259980246, 67.859763463,
\* 72.937624981, 75.843265046 and the rest to (2,2), (2,3), (3,3), (3,4),
\* (4,4); both coefficients are in {2,3,4}; and for m <= m' neither
\* coefficient of m exceeds that of m'.
C10_LpMonotone ==
    (calc.fn = "lp" /\ calc.done) =>
        /\ calc.lp_a =
              IF BelowDecimal(calc.a, 65, 259980246) THEN <<2, 2>>
              ELSE IF BelowDecimal(calc.a, 67, 859763463) THEN <<2, 3>>
              ELSE IF BelowDecimal(calc.a, 72, 937624981) THEN <<3, 3>>
              ELSE IF BelowDecimal(calc.a, 75, 843265046) THEN <<3, 4>>
              ELSE <<4, 4>>
        /\ calc.lp_a[1] \in {2, 3, 4}
        /\ calc.lp_a[2] \in {2, 3, 4}
        /\ MLeq(calc.a, calc.b) =>
              (calc.lp_a[1] <= calc.lp_b[1] /\ calc.lp_a[2] <= calc.lp_b[2])

C10_Witness ==
    /\ calc.fn = "lp"
    /\ calc.done
    /\ MLeq(calc.a, calc.b)
    /\ calc.a = <<67, LP_BREAK_2[2] - 1>>
    /\ calc.lp_a = <<2, 3>>
    /\ calc.b = <<72, LP_BREAK_3[2]>>
    /\ calc.lp_b = <<3, 4>>

\* the smallest even h in [HS_DIV_MIN, ...) with 2^b * h * f >= FVCO_MIN:
\* twice the larger of HS_DIV_MIN / 2 and ceil((FVCO_MIN / 2) / (2^b * f))
SmallestEvenDivider(f, b) ==
    LET d == Pow2(b) * f
        k == ((FVCO_MIN \div 2) + d - 1) \div d
    IN  2 * (IF k < HS_DIV_MIN \div 2 THEN HS_DIV_MIN \div 2 ELSE k)

\* C13: for every frequency f in [100000, 250000000] and
\* b = calculate_ls_div(f), calculate_hs_div(f, b) is the smallest even h in
\* [10, 1022] with 2^b * h * f >= 2080000000.
C13_HsDivSmallest ==
    (calc.fn = "solve" /\ calc.done /\ MIN_FREQ <= calc.f /\ calc.f <= MAX_FREQ) =>
        /\ calc.ls_div = calculate_ls_div(calc.f)
        /\ SmallestEvenDivider(calc.f, calc.ls_div) <= HS_DIV_MAX
        /\ calc.hs_div = SmallestEvenDivider(calc.f, calc.ls_div)

C13_Witness ==
    /\ calc.fn = "solve"
    /\ calc.done
    /\ calc.f = 10000000
    /\ calc.ls_div = 0
    /\ calc.hs_div = 208
    /\ ~ProdGE(103, calc.f, FVCO_MIN \div 2)

\* C14: calibrate_vcxo writes to the control register the value it has just
\* read from it with bit 0 set: every other bit is written as it was read.
C14_CalibrateReadModifyWrite ==
    [][ (call'.name = "calibrate_vcxo" /\ result' = "ok") =>
            /\ Len(ops') = 2
            /\ ops'[1] = ReadOp(REG_CONTROL, chip[REG_CONTROL])
            /\ ops'[2].op = "w"
            /\ ops'[2].reg = REG_CONTROL
            /\ BitSet(ops'[2].val, CALIBRATE)
            /\ ops'[2].val \div 2 = ops'[1].val \div 2
            /\ chip'[REG_CONTROL] = ops'[2].val
      ]_vars

C14_Witness ==
    /\ call.name = "calibrate_vcxo"
    /\ result = "ok"
    /\ ops[1].val = OUTPUT_ENABLE
    /\ ops[2].val = OUTPUT_ENABLE + CALIBRATE
    /\ swallowed > 0

\* C15: a transport exception raised by a single ReadRegister or
\* WriteRegister attempt never reaches the caller of set_freq_large or
\* set_freq_small: the register operation is retried until it succeeds.
C15_TransportErrorsRetried ==
    (call.name \in {"set_freq_large", "set_freq_small"}) =>
        result # "TransportError"

\* C16: a set_freq_small that directly follows a successful set_freq_small
\* to a frequency other than the cached one fails its consistency check
\* (state mismatch), because the chip holds the first small change's
\* multiplier and the cache the large change's.
C16_SecondSmallFails ==
    [][ ( /\ call.name = "set_freq_small"
          /\ result = "ok"
          /\ call.arg # freq
          /\ call'.name = "set_freq_small"
          /\ result' # "TransportError" ) =>
            (result' = "ValueError" /\ Writes(ops') = <<>>)
      ]_vars

\* C17: a set_freq_large that ends with an error hands the error to its
\* caller, leaves the cache (m_int, m_frac, freq) as it was before the
\* call, issues no write that sets the output-enable bit, and leaves the
\* output-enable bit of the chip clear.
C17_LargeAbortKeepsCache ==
    [][ (call'.name = "set_freq_large" /\ result' # "ok") =>
            /\ result' = "TransportError"
            /\ <<m_int, m_frac, freq>>' = <<m_int, m_frac, freq>>
            /\ \A i \in 1..Len(ops') :
                  (ops'[i].op = "w" /\ ops'[i].reg = REG_CONTROL)
                      => ~BitSet(ops'[i].val, OUTPUT_ENABLE)
            /\ ~BitSet(chip'[REG_CONTROL], OUTPUT_ENABLE)
      ]_vars

C17_Witness ==
    /\ call.name = "set_freq_large"
    /\ result = "TransportError"
    /\ call.arg = freq_max
    /\ freq = 10000000
    /\ m_int = 65
    /\ Len(ops) = 9
    /\ RegisterMapMultiplier(chip) # <<m_int, m_frac>>

\* C18: reset() issues exactly one register write, to the reset register
\* (address 128), and returns without error.
C18_ResetWritesOnce ==
    (call.name = "reset") =>
        /\ result = "ok"
        /\ Len(ops) = 1
        /\ ops[1].op = "w"
        /\ ops[1].reg = REG_RESET

\* the elements of a sequence
Range(s) == {s[i] : i \in 1..Len(s)}

\* the bound a scan option stands for: its value, or the default when absent
ScanBound(arg, default) == IF arg = <<>> THEN default ELSE arg[1]

\* C11: the bus scan given bounds L and U (0 <= L <= U <= 127) probes
\* exactly the addresses L..U, each once and in order, and reports exactly
\* the addresses in [L, U] that respond; when none responds the result is
\* empty and the outcome is "No devices found".
C11_ScanWithinBounds ==
    (calc.fn = "scanbus" /\ calc.done /\ calc.stderr = "none") =>
        LET L == ScanBound(calc.lower_arg, 0)
            U == ScanBound(calc.upper_arg, 127)
        IN  /\ Range(calc.probed) = L..U
            /\ Len(calc.probed) = U + 1 - L
            /\ Range(calc.validAddresses) = calc.responding \cap (L..U)
            /\ (calc.responding \cap (L..U) = {}) =>
                  (calc.validAddresses = <<>> /\ calc.stdout = "No devices found")

\* C12: at the frequency-set entry point every error outcome (a frequency
\* outside [100000, 170000000], or an exception raised while programming
\* the chip) prints a diagnostic and ends the process with a non-zero
\* exit status.
C12_ErrorExitNonZero ==
    ( /\ calc.fn = "main"
      /\ calc.done
      /\ \/ calc.freq_arg # <<>> /\ calc.freq_arg[1] < freq_min
         \/ calc.freq_arg # <<>> /\ calc.freq_arg[1] > freq_max
         \/ calc.stderr = "Error"
         \/ result # "ok" ) =>
        /\ calc.stderr # "none"
        /\ calc.status # <<>>
        /\ calc.status # <<0>>

\* C19: with a chip that returns the bytes last written and is not changed
\* out of band, a set_freq_small that directly follows a successful
\* set_freq_large(f), f in [100000, 170000000], never raises the
\* state-mismatch error: the multiplier it reads back is the cached one.
C19_ReadBackMatchesCache ==
    [][ ( /\ call.name = "set_freq_large"
          /\ result = "ok"
          /\ call'.name = "set_freq_small" ) =>
            /\ result' # "ValueError"
            /\ HasAll(ops', "r") =>
                  /\ UnpackMultiplier(OpImage(ops', "r")) = <<m_int, m_frac>>
                  /\ RegisterMapMultiplier(OpImage(ops', "r")) = <<m_int, m_frac>>
                  /\ result' = "ok"
      ]_vars

C19_Witness ==
    /\ calc.fn = "readback"
    /\ calc.f = freq_min
    /\ call.name = "set_freq_small"
    /\ result = "ok"
    /\ freq = freq_min
    /\ UnpackMultiplier(OpImage(ops, "r")) = <<m_int, m_frac>>
    /\ m_int >= 65

\* C20: on a driver on which no set_freq_large has completed (cache
\* (-1, -1), frequency 0), every set_freq_small whose five reads return
\* fails with the state-mismatch error and issues no register write,
\* whatever bytes the chip returns; the division by the cached frequency 0
\* is never reached.
C20_FreshSmallFails ==
    ( /\ call.name = "set_freq_small"
      /\ <<m_int, m_frac>> = <<-1, -1>>
      /\ freq = 0 ) =>
        /\ result # "ZeroDivisionError"
        /\ result # "ok"
        /\ Writes(ops) = <<>>
        /\ HasAll(ops, "r") => result = "ValueError"

C20_Witness ==
    /\ call.name = "set_freq_small"
    /\ <<m_int, m_frac>> = <<-1, -1>>
    /\ result = "ValueError"
    /\ Len(ops) = 5
    /\ \A r \in MRegs : chip[r] = 255

====
